---- MODULE Spec2Model ----
(***************************************************************************)
(* Clojure-Sublimed, Socket REPL client:                                   *)
(*   src/cs_conn.py              Connection, window commands               *)
(*   src/cs_conn_socket_repl.py  lines, escape, ConnectionSocketRepl       *)
(*                                                                         *)
(* The specifications of this module:                                      *)
(*   SpecLines   the generator lines(socket) fed with chunks of bytes      *)
(*   SpecEscape  escape / eval_impl building the "code" field of a message *)
(*   Spec        one Connection, its threads, two windows                  *)
(*   SpecRetry   one Connection connected with a timeout, with timing      *)
(*   SpecEval    one Connection, eval and lookup requests, inbound messages*)
(*   SpecEvict   two Connections in two windows, their Evals and watches   *)
(*   SpecTwo     several Connections in one window, every command          *)
(*   SpecOrder   one Connection, the handshake and the peer's lines queued *)
(*   SpecInterrupt one Connection, a request and interrupt requests        *)
(***************************************************************************)
EXTENDS Integers, Sequences, FiniteSets, TLC

VARIABLES
  \* ---- lines(socket), cs_conn_socket_repl.py:4-16
  lnInput,     \* every byte the peer writes before closing the stream
  lnSplit,     \* the chunks recv() returns them in
  lnChunks,    \* what recv() has still to return, chunk by chunk
  lnMore,      \* local `more`
  lnBuffer,    \* local `buffer`
  lnOut,       \* the lines yielded so far
  lnPc,        \* position of the generator
  \* ---- escape / eval_impl, cs_conn_socket_repl.py:18-19, 70-91
  exCode,      \* form.code
  exWire,      \* the text handed to send()
  exBack,      \* what the reader of the wire text decodes
  exPc,
  \* ---- windows (cs_common.get_state, cs_common.set_status)
  activeWindow,   \* sublime.active_window()
  stateConn,      \* state.conn of each window
  lastConn,       \* state.last_conn is not None, of each window
  winStatus,      \* the status-bar entry 'clojure-sublimed-conn' of each window
  warnings,       \* cs_warn: warnings counted for each window
  \* ---- Connection objects
  nConns,         \* how many have been constructed
  cWindow,        \* self.window
  cTimeout,       \* the timeout try_connect was called with
  cDisconnecting, \* self.disconnecting
  cSocket,        \* self.socket: None or the socket object
  cStatus,        \* self.status: None or the phase last set
  sockState,      \* the socket object: "none", "open", "closed"
  \* ---- threads
  pc,             \* position of each thread
  ret,            \* where a thread inside disconnect() returns to
  mainConn,       \* the Connection the command on the main thread works on
  \* ---- try_connect_impl
  elapsed,        \* time.time() - t0, in ticks of 250 ms
  iterStart,      \* elapsed at the last loop test that passed
  attemptAt,      \* elapsed when the last connect_impl call of the loop began, -1 before
  prevAttemptAt,  \* the same of the call before it, -1 before
  stoppedAt,      \* elapsed at the loop test that failed, -1 before
  \* ---- registries (cs_eval, cs_watch)
  evals,          \* the Evals registered
  watches,        \* windows holding a watch
  nextId,         \* Eval.next_id
  dispatch,       \* the last message handle_msg was given and the callbacks it led to
  \* ---- ConnectionSocketRepl.eval locals
  evForms, evBatch, evIdx, evCreated,
  \* ---- socket traffic
  sent,           \* what each connection wrote, in order
  started,        \* read_loop local `started`
  cShared,        \* what cs_common.setting('eval_shared') gave read_loop
  inbound,        \* the lines that have arrived and lines() has not yielded yet
  arrived,        \* every line that has arrived, in order
  handled,        \* every line handle_msg was called with, in order
  \* ---- what has been done for each connection
  closeCalls,     \* calls of socket.close()
  statusClears,   \* set_status(window, status_key, None)
  errLogs,        \* cs_common.error
  failMsgs,       \* window.status_message('Connection failed')
  cInstalled      \* state.conn = self has run

linesVars == <<lnInput, lnSplit, lnChunks, lnMore, lnBuffer, lnOut, lnPc>>
escVars   == <<exCode, exWire, exBack, exPc>>
winVars   == <<activeWindow, stateConn, lastConn, winStatus, warnings>>
objVars   == <<nConns, cWindow, cTimeout, cDisconnecting, cSocket, cStatus, sockState>>
thrVars   == <<pc, ret, mainConn>>
retryVars == <<elapsed, iterStart, attemptAt, prevAttemptAt, stoppedAt>>
regVars   == <<evals, watches, nextId, dispatch>>
evVars    == <<evForms, evBatch, evIdx, evCreated>>
ioVars    == <<sent, started>>
wireVars  == <<cShared, inbound, arrived, handled>>
histVars  == <<closeCalls, statusClears, errLogs, failMsgs, cInstalled>>
connVars  == <<winVars, objVars, thrVars, retryVars, regVars, evVars, ioVars, wireVars,
               histVars>>
pureVars  == <<linesVars, escVars>>
vars      == <<linesVars, escVars, connVars>>

None     == "None"   \* None, where the other values are strings
NoConn   == 0        \* state.conn is None
NoStatus == -1       \* a status that is None
NoIdx    == -1       \* msg.get('idx') is None

(***************************************************************************)
(* Bounds                                                                  *)
(***************************************************************************)
MaxBytes   == 4     \* length of the inbound byte stream
MaxCodeLen == 4     \* length of form.code

\* All sequences over S of length at most n.
RECURSIVE SeqsUpTo(_, _)
SeqsUpTo(S, n) ==
  IF n = 0 THEN {<<>>}
  ELSE LET shorter == SeqsUpTo(S, n - 1)
       IN  shorter \cup {Append(s, x) : s \in {t \in shorter : Len(t) = n - 1}, x \in S}

(***************************************************************************)
(* lines(socket)                                                           *)
(***************************************************************************)
NL    == 10                    \* b'\n'
\* '\n', 'a', and the two bytes of one two-byte UTF-8 character
Bytes == {NL, 97, 195, 169}

DecodeError == "UnicodeDecodeError"

\* bytes.decode(): strict UTF-8. The result is the sequence of code points,
\* or DecodeError when the bytes are not well formed.
RECURSIVE Decode(_)
Decode(b) ==
  IF b = <<>> THEN <<>>
  ELSE IF b[1] < 128
    THEN LET rest == Decode(Tail(b))
         IN  IF rest = DecodeError THEN DecodeError ELSE <<b[1]>> \o rest
  ELSE IF b[1] >= 194 /\ b[1] <= 223 /\ Len(b) >= 2 /\ b[2] >= 128 /\ b[2] <= 191
    THEN LET rest == Decode(Tail(Tail(b)))
         IN  IF rest = DecodeError THEN DecodeError
             ELSE <<(b[1] - 192) * 64 + (b[2] - 128)>> \o rest
  ELSE DecodeError

\* Index of the first b'\n' in buf, 0 when there is none.
RECURSIVE FirstNL(_, _)
FirstNL(buf, i) ==
  IF i > Len(buf) THEN 0
  ELSE IF buf[i] = NL THEN i
  ELSE FirstNL(buf, i + 1)

HasNL(buf) == FirstNL(buf, 1) # 0

\* buffer.split(b'\n', 1)
SplitHead(buf) == SubSeq(buf, 1, FirstNL(buf, 1) - 1)
SplitRest(buf) == SubSeq(buf, FirstNL(buf, 1) + 1, Len(buf))

\* Mutant of Accumulate: the new chunk replaces what was buffered.
AccumulateDropping(buffer, more) == more

\* buffer += more
Accumulate(buffer, more) == buffer \o more

\* Every way of cutting s into non-empty chunks.
RECURSIVE Chunkings(_)
Chunkings(s) ==
  IF s = <<>> THEN {<<>>}
  ELSE UNION { { <<SubSeq(s, 1, k)>> \o rest : rest \in Chunkings(SubSeq(s, k + 1, Len(s))) }
               : k \in 1..Len(s) }

LinesStart ==
  /\ lnInput \in SeqsUpTo(Bytes, MaxBytes)
  /\ lnSplit \in Chunkings(lnInput)
  /\ lnChunks = lnSplit
  /\ lnMore = <<>>
  /\ lnBuffer = <<>>
  /\ lnOut = <<>>
  /\ lnPc = "recv"

\* The generator is not running (the other specifications).
LinesIdle ==
  /\ lnInput = <<>>
  /\ lnSplit = <<>>
  /\ lnChunks = <<>>
  /\ lnMore = <<>>
  /\ lnBuffer = <<>>
  /\ lnOut = <<>>
  /\ lnPc = "idle"

\* more = socket.recv(4096); if more: buffer += more
\* recv returns b'' once the peer has closed the stream.
LinesRecv ==
  /\ lnPc = "recv"
  /\ IF lnChunks = <<>>
       THEN /\ lnMore' = <<>>
            /\ UNCHANGED <<lnChunks, lnBuffer>>
       ELSE /\ lnMore' = Head(lnChunks)
            /\ lnChunks' = Tail(lnChunks)
            /\ lnBuffer' = Accumulate(lnBuffer, Head(lnChunks))
  /\ lnPc' = "split"
  /\ UNCHANGED <<lnInput, lnSplit, lnOut, escVars, connVars>>

\* while b'\n' in buffer: (line, buffer) = buffer.split(b'\n', 1); yield line.decode()
LinesYield ==
  /\ lnPc = "split"
  /\ HasNL(lnBuffer)
  /\ lnBuffer' = SplitRest(lnBuffer)
  /\ IF Decode(SplitHead(lnBuffer)) = DecodeError
       THEN lnPc' = "raised" /\ UNCHANGED lnOut
       ELSE lnPc' = "split" /\ lnOut' = Append(lnOut, Decode(SplitHead(lnBuffer)))
  /\ UNCHANGED <<lnInput, lnSplit, lnChunks, lnMore, escVars, connVars>>

\* if not more: break
LinesLoop ==
  /\ lnPc = "split"
  /\ ~HasNL(lnBuffer)
  /\ lnPc' = IF lnMore = <<>> THEN "final" ELSE "recv"
  /\ UNCHANGED <<lnInput, lnSplit, lnChunks, lnMore, lnBuffer, lnOut, escVars, connVars>>

\* if buffer: yield buffer.decode()
LinesFinal ==
  /\ lnPc = "final"
  /\ IF lnBuffer = <<>>
       THEN lnPc' = "done" /\ UNCHANGED lnOut
       ELSE IF Decode(lnBuffer) = DecodeError
         THEN lnPc' = "raised" /\ UNCHANGED lnOut
         ELSE lnPc' = "done" /\ lnOut' = Append(lnOut, Decode(lnBuffer))
  /\ UNCHANGED <<lnInput, lnSplit, lnChunks, lnMore, lnBuffer, escVars, connVars>>

(***************************************************************************)
(* escape, eval_impl                                                       *)
(***************************************************************************)
BS == "\\"
DQ == "\""
Chars == {BS, DQ, "a"}

\* str.replace(old, new) for a one-character old.
RECURSIVE Replace(_, _, _)
Replace(s, old, new) ==
  IF s = <<>> THEN <<>>
  ELSE (IF s[1] = old THEN new ELSE <<s[1]>>) \o Replace(Tail(s), old, new)

\* Mutant of escape: the two replacements in the other order.
EscapeQuotesFirst(s) == Replace(Replace(s, DQ, <<BS, DQ>>), BS, <<BS, BS>>)

\* s.replace('\\', '\\\\').replace('"', '\\"')
escape(s) == Replace(Replace(s, BS, <<BS, BS>>), DQ, <<BS, DQ>>)

\* msg += f'"code" "{escape(form.code)}"' ... msg += f'}}'
\* (the text of the field's value and the brace that closes the message)
CodeField(code) == <<DQ>> \o escape(code) \o <<DQ, "}">>

\* The reader of a string literal: from the opening quote to the first quote
\* that no backslash precedes; a backslash stands for the character after it.
\* ok: the literal is closed; text: what it denotes; rest: what follows it.
RECURSIVE ReadString(_, _)
ReadString(w, acc) ==
  IF w = <<>> THEN [ok |-> FALSE, text |-> acc, rest |-> <<>>]
  ELSE IF w[1] = DQ THEN [ok |-> TRUE, text |-> acc, rest |-> Tail(w)]
  ELSE IF w[1] = BS
    THEN IF Len(w) < 2 THEN [ok |-> FALSE, text |-> acc, rest |-> <<>>]
         ELSE ReadString(Tail(Tail(w)), Append(acc, w[2]))
  ELSE ReadString(Tail(w), Append(acc, w[1]))

ReadField(w) ==
  IF w = <<>> \/ w[1] # DQ
    THEN [ok |-> FALSE, text |-> <<>>, rest |-> <<>>]
    ELSE ReadString(Tail(w), <<>>)

NotRead == [ok |-> FALSE, text |-> <<>>, rest |-> <<>>]

EscapeStart ==
  /\ exCode \in SeqsUpTo(Chars, MaxCodeLen)
  /\ exWire = <<>>
  /\ exBack = NotRead
  /\ exPc = "form"

EscapeIdle ==
  /\ exCode = <<>>
  /\ exWire = <<>>
  /\ exBack = NotRead
  /\ exPc = "idle"

\* eval_impl(form): the "code" field of the message
EvalImplEncode ==
  /\ exPc = "form"
  /\ exWire' = CodeField(exCode)
  /\ exPc' = "sent"
  /\ UNCHANGED <<exCode, exBack, linesVars, connVars>>

\* the peer reads the field back
PeerDecode ==
  /\ exPc = "sent"
  /\ exBack' = ReadField(exWire)
  /\ exPc' = "read"
  /\ UNCHANGED <<exCode, exWire, linesVars, connVars>>

(***************************************************************************)
(* Connections: bounds, sets, helpers                                      *)
(***************************************************************************)
MaxConns        == 2   \* Connection objects constructed in a run
MaxTimeout      == 2   \* largest timeout of try_connect, in ticks of 250 ms
MaxAttemptTicks == 1   \* longest time one socket_connect call takes to fail
MaxOversleep    == 1   \* longest time.sleep runs over what was asked
MaxForms        == 3   \* top-level forms in one evaluated region
MaxBatches      == 1   \* requests submitted in a run
MaxLines        == 3   \* lines the peer writes to one connection
MaxInterrupts   == 2   \* interrupt requests of a run

SleepTicks      == 1   \* time.sleep(0.25)
PhaseConnecting == 0   \* set_status(0, 'Connecting to {}', ...)
PhaseUpgrading  == 1   \* set_status(1, 'Upgrading REPL')
PhaseReady      == 4   \* set_status(4, self.get_addr())

Windows  == {"w1", "w2"}
Conns    == 1..MaxConns
Timeouts == 0..MaxTimeout

MainT      == <<"main", 0>>
RetryT(c)  == <<"retry", c>>
ReaderT(c) == <<"reader", c>>
Threads    == {MainT} \cup {RetryT(c) : c \in Conns} \cup {ReaderT(c) : c \in Conns}

\* The Connection a thread runs a method of.
Self(t) == IF t = MainT THEN mainConn ELSE t[2]

\* cs_common.get_state(window = None): the state of the window given, of the
\* active window when none is given.
get_state(window) == IF window = None THEN activeWindow ELSE window

\* cs_common.set_status(window, key, value)
set_status(ws, window, value) == [ws EXCEPT ![window] = value]

\* Connection.ready: bool(self.status and self.status[0] == phases[4])
ConnReady(c) == cStatus[c] # NoStatus /\ cStatus[c] = PhaseReady

\* ready(window): bool(state.conn and state.conn.ready())
ready(window) ==
  /\ stateConn[get_state(window)] # NoConn
  /\ ConnReady(stateConn[get_state(window)])

\* is_enabled of the connect command: state.conn is None
ConnectEnabled(window) == stateConn[get_state(window)] = NoConn

\* is_enabled of the disconnect command: state.conn is not None
DisconnectEnabled(window) == stateConn[get_state(window)] # NoConn

\* is_enabled of the reconnect command: state.last_conn is not None
ReconnectEnabled(window) == lastConn[get_state(window)]

\* f'{id}.{idx}'
FmtId(id, idx) == <<id, idx>>
\* a bare identifier
BareId(id) == <<id>>

\* Mutant of EvalOfWindow: every Eval is erased.
EvalOfAnyWindow(eval, c) == TRUE

\* lambda eval: eval.window == self.window
EvalOfWindow(eval, c) == eval.win = cWindow[c]

\* lambda w: w.view.window() == self.window
WatchOfWindow(w, c) == w = cWindow[c]

\* cs_eval.erase_evals(predicate): the Evals the predicate holds of leave the
\* registry; none of their callbacks is called.
erase_evals(es, c) == {e \in es : ~EvalOfWindow(e, c)}

\* cs_watch.erase_watches(predicate)
erase_watches(ws, c) == {w \in ws : ~WatchOfWindow(w, c)}

\* Mutant of LoopCond: the loop allows itself one sleep more.
LoopCondLate(e, timeout) == e <= timeout + SleepTicks

\* while time.time() - t0 <= timeout
LoopCond(e, timeout) == e <= timeout

\* time.sleep(0.25): at least the time asked for
SleepFor(over) == SleepTicks + over

\* No message has been dispatched yet.
NoDispatch == [msg |-> [tag |-> "none", id |-> 1, idx |-> NoIdx, refl |-> FALSE], cbs |-> {}]

Goto(t, l) == pc' = [pc EXCEPT ![t] = l]

\* An exception no handler catches: a command ends, a background thread dies.
Crashed(t) == IF t = MainT THEN "idle" ELSE "crashed"

ConnStart ==
  /\ activeWindow = "w1"
  /\ stateConn = [w \in Windows |-> NoConn]
  /\ lastConn = [w \in Windows |-> FALSE]
  /\ winStatus = [w \in Windows |-> NoStatus]
  /\ warnings = [w \in Windows |-> FALSE]
  /\ nConns = 0
  /\ cWindow = [c \in Conns |-> None]
  /\ cTimeout = [c \in Conns |-> 0]
  /\ cDisconnecting = [c \in Conns |-> FALSE]
  /\ cSocket = [c \in Conns |-> None]
  /\ cStatus = [c \in Conns |-> NoStatus]
  /\ sockState = [c \in Conns |-> "none"]
  /\ pc = [t \in Threads |-> IF t = MainT THEN "idle" ELSE "off"]
  /\ ret = [t \in Threads |-> None]
  /\ mainConn = NoConn
  /\ elapsed = [c \in Conns |-> 0]
  /\ iterStart = [c \in Conns |-> 0]
  /\ attemptAt = [c \in Conns |-> -1]
  /\ prevAttemptAt = [c \in Conns |-> -1]
  /\ stoppedAt = [c \in Conns |-> -1]
  /\ evals = {}
  /\ watches = {}
  /\ nextId = 1
  /\ dispatch = NoDispatch
  /\ evForms = 0
  /\ evBatch = 0
  /\ evIdx = 0
  /\ evCreated = <<>>
  /\ sent = [c \in Conns |-> <<>>]
  /\ started = [c \in Conns |-> FALSE]
  /\ cShared = [c \in Conns |-> "unread"]
  /\ inbound = [c \in Conns |-> <<>>]
  /\ arrived = [c \in Conns |-> <<>>]
  /\ handled = [c \in Conns |-> <<>>]
  /\ closeCalls = [c \in Conns |-> 0]
  /\ statusClears = [c \in Conns |-> 0]
  /\ errLogs = [c \in Conns |-> 0]
  /\ failMsgs = [c \in Conns |-> 0]
  /\ cInstalled = [c \in Conns |-> FALSE]

(***************************************************************************)
(* Window commands (main thread)                                           *)
(***************************************************************************)
\* ConnectionSocketRepl(address).try_connect(timeout = timeout), after
\* state.last_conn has been set: the object is constructed for the active
\* window; with a timeout a thread is started (try_connect_impl: t0 =
\* time.time(); attempt = 1), else connect() runs here.
Construct(timeout) ==
  LET c == nConns + 1 IN
  /\ lastConn' = [lastConn EXCEPT ![activeWindow] = TRUE]
  /\ nConns' = c
  /\ cWindow' = [cWindow EXCEPT ![c] = activeWindow]
  /\ cTimeout' = [cTimeout EXCEPT ![c] = timeout]
  /\ IF timeout # 0
       THEN /\ pc' = [pc EXCEPT ![RetryT(c)] = "t_check", ![MainT] = "idle"]
            /\ mainConn' = NoConn
       ELSE /\ pc' = [pc EXCEPT ![MainT] = "ci_status"]
            /\ mainConn' = c
  /\ UNCHANGED <<activeWindow, stateConn, winStatus, warnings, cDisconnecting, cSocket,
                 cStatus, sockState, ret, retryVars, regVars, evVars, ioVars, histVars,
                 wireVars, pureVars>>

\* ClojureSublimedConnectSocketReplCommand.run(address, timeout)
\* (limit: the Connection objects a run may construct; timeouts: the
\* timeouts the command is given)
ConnectCommand(limit, timeouts) ==
  /\ pc[MainT] = "idle"
  /\ ConnectEnabled(activeWindow)
  /\ nConns < limit
  /\ \E timeout \in timeouts : Construct(timeout)

\* ClojureSublimedDisconnectCommand.run: state.conn.disconnect()
DisconnectCommand ==
  /\ pc[MainT] = "idle"
  /\ DisconnectEnabled(activeWindow)
  /\ mainConn' = stateConn[activeWindow]
  /\ pc' = [pc EXCEPT ![MainT] = "d_check"]
  /\ ret' = [ret EXCEPT ![MainT] = "idle"]
  /\ UNCHANGED <<winVars, objVars, retryVars, regVars, evVars, ioVars, histVars, wireVars, pureVars>>

\* ClojureSublimedReconnectCommand.run: disconnect when state.conn is set, ...
ReconnectCommand(limit) ==
  /\ pc[MainT] = "idle"
  /\ ReconnectEnabled(activeWindow)
  /\ nConns < limit
  /\ IF stateConn[activeWindow] # NoConn
       THEN /\ mainConn' = stateConn[activeWindow]
            /\ pc' = [pc EXCEPT ![MainT] = "d_check"]
            /\ ret' = [ret EXCEPT ![MainT] = "rc_connect"]
       ELSE /\ pc' = [pc EXCEPT ![MainT] = "rc_connect"]
            /\ UNCHANGED <<mainConn, ret>>
  /\ UNCHANGED <<winVars, objVars, retryVars, regVars, evVars, ioVars, histVars, wireVars, pureVars>>

\* ... then self.window.run_command(*state.last_conn): the connect command
\* with no timeout, which runs when it is enabled.
ReconnectConnect ==
  /\ pc[MainT] = "rc_connect"
  /\ IF ConnectEnabled(activeWindow)
       THEN Construct(0)
       ELSE /\ pc' = [pc EXCEPT ![MainT] = "idle"]
            /\ mainConn' = NoConn
            /\ UNCHANGED <<winVars, objVars, ret, retryVars, regVars, evVars, ioVars,
                           histVars, wireVars, pureVars>>

\* The user brings another window to the front.
SwitchWindow ==
  /\ pc[MainT] = "idle"
  /\ \E w \in Windows \ {activeWindow} : activeWindow' = w
  /\ UNCHANGED <<stateConn, lastConn, winStatus, warnings, objVars, thrVars, retryVars,
                 regVars, evVars, ioVars, histVars, wireVars, pureVars>>

(***************************************************************************)
(* Connection.connect, try_connect_impl, connect_impl                      *)
(***************************************************************************)
\* connect_impl: self.set_status(0, 'Connecting to {}', self.get_addr())
ConnectImplStatus(t) ==
  LET c == Self(t) IN
  /\ pc[t] = "ci_status"
  /\ cStatus' = [cStatus EXCEPT ![c] = PhaseConnecting]
  /\ winStatus' = set_status(winStatus, cWindow[c], PhaseConnecting)
  /\ attemptAt' = IF t = MainT THEN attemptAt ELSE [attemptAt EXCEPT ![c] = elapsed[c]]
  /\ prevAttemptAt' = IF t = MainT THEN prevAttemptAt
                      ELSE [prevAttemptAt EXCEPT ![c] = attemptAt[c]]
  /\ Goto(t, "ci_sock")
  /\ UNCHANGED <<activeWindow, stateConn, lastConn, warnings, nConns, cWindow, cTimeout,
                 cDisconnecting, cSocket, sockState, ret, mainConn, elapsed, iterStart,
                 stoppedAt, regVars, evVars, ioVars, histVars, wireVars, pureVars>>

\* connect_impl: self.socket = cs_common.socket_connect(self.get_addr())
\*               self.reader = threading.Thread(...); self.reader.start()
\* The call returns a socket or raises. connect() catches the exception,
\* logs 'Connection failed' and calls disconnect(); try_connect_impl catches
\* it and goes round the loop again.
\* (durations: how long the call may take, in ticks)
ConnectImplSocket(t, durations) ==
  LET c == Self(t) IN
  /\ pc[t] = "ci_sock"
  /\ \E ok \in BOOLEAN, d \in durations :
       /\ t = MainT => d = 0
       /\ elapsed' = [elapsed EXCEPT ![c] = @ + d]
       /\ IF ok
            THEN /\ cSocket' = [cSocket EXCEPT ![c] = "sock"]
                 /\ sockState' = [sockState EXCEPT ![c] = "open"]
                 /\ pc' = [pc EXCEPT ![t] = "install", ![ReaderT(c)] = "r_status"]
                 /\ UNCHANGED <<ret, errLogs>>
            ELSE /\ UNCHANGED <<cSocket, sockState>>
                 /\ IF t = MainT
                      THEN /\ errLogs' = [errLogs EXCEPT ![c] = @ + 1]
                           /\ Goto(t, "d_check")
                           /\ ret' = [ret EXCEPT ![t] = "c_msg"]
                      ELSE /\ Goto(t, "t_check")
                           /\ UNCHANGED <<ret, errLogs>>
  /\ UNCHANGED <<winVars, nConns, cWindow, cTimeout, cDisconnecting, cStatus, mainConn,
                 iterStart, attemptAt, prevAttemptAt, stoppedAt, regVars, evVars, ioVars, closeCalls,
                 statusClears, failMsgs, cInstalled, wireVars, pureVars>>

\* Mutant of AfterInstall: the retry loop goes round again after a success.
AfterInstallLoop(t) == IF t = MainT THEN "idle" ELSE "t_check"

\* connect(): the method ends after state.conn = self;
\* try_connect_impl: state.conn = self; return
AfterInstall(t) == IF t = MainT THEN "idle" ELSE "t_done"

\* state.conn = self, where state is the state of the connection's window
\* (connect() takes it from the window active when the command ran, which is
\* the window the constructor stored).
Install(t) ==
  LET c == Self(t) IN
  /\ pc[t] = "install"
  /\ stateConn' = [stateConn EXCEPT ![get_state(cWindow[c])] = c]
  /\ cInstalled' = [cInstalled EXCEPT ![c] = TRUE]
  /\ Goto(t, AfterInstall(t))
  /\ mainConn' = IF t = MainT THEN NoConn ELSE mainConn
  /\ UNCHANGED <<activeWindow, lastConn, winStatus, warnings, objVars, ret, retryVars,
                 regVars, evVars, ioVars, closeCalls, statusClears, errLogs,
                 failMsgs, wireVars, pureVars>>

\* connect(): window.status_message('Connection failed'), after disconnect()
ConnectFailedMsg ==
  /\ pc[MainT] = "c_msg"
  /\ failMsgs' = [failMsgs EXCEPT ![mainConn] = @ + 1]
  /\ Goto(MainT, "idle")
  /\ mainConn' = NoConn
  /\ UNCHANGED <<winVars, objVars, ret, retryVars, regVars, evVars, ioVars, closeCalls,
                 statusClears, errLogs, cInstalled, wireVars, pureVars>>

\* while time.time() - t0 <= timeout: time.sleep(0.25) ...
\* after the loop: cs_common.error('Giving up ...'); self.disconnect()
\* (overs: by how much the sleep may run over, in ticks)
TryCheck(c, overs) ==
  /\ pc[RetryT(c)] = "t_check"
  /\ IF LoopCond(elapsed[c], cTimeout[c])
       THEN /\ iterStart' = [iterStart EXCEPT ![c] = elapsed[c]]
            /\ \E over \in overs : elapsed' = [elapsed EXCEPT ![c] = @ + SleepFor(over)]
            /\ Goto(RetryT(c), "ci_status")
            /\ UNCHANGED <<stoppedAt, errLogs, ret>>
       ELSE /\ stoppedAt' = [stoppedAt EXCEPT ![c] = elapsed[c]]
            /\ errLogs' = [errLogs EXCEPT ![c] = @ + 1]
            /\ Goto(RetryT(c), "d_check")
            /\ ret' = [ret EXCEPT ![RetryT(c)] = "t_msg"]
            /\ UNCHANGED <<iterStart, elapsed>>
  /\ UNCHANGED <<winVars, objVars, mainConn, attemptAt, prevAttemptAt, regVars, evVars,
                 ioVars, closeCalls, statusClears, failMsgs, cInstalled, wireVars, pureVars>>

\* try_connect_impl: window.status_message('Connection failed'), after disconnect()
TryFailedMsg(c) ==
  /\ pc[RetryT(c)] = "t_msg"
  /\ failMsgs' = [failMsgs EXCEPT ![c] = @ + 1]
  /\ Goto(RetryT(c), "t_done")
  /\ UNCHANGED <<winVars, objVars, ret, mainConn, retryVars, regVars, evVars, ioVars,
                 closeCalls, statusClears, errLogs, cInstalled, wireVars, pureVars>>

(***************************************************************************)
(* Connection.disconnect, ConnectionSocketRepl.disconnect_impl             *)
(***************************************************************************)
\* Mutant of AlreadyDisconnecting: disconnect() has no guard.
NeverDisconnecting(c) == FALSE

\* if self.disconnecting: return
AlreadyDisconnecting(c) == cDisconnecting[c]

Return(t) ==
  /\ pc' = [pc EXCEPT ![t] = ret[t]]
  /\ ret' = [ret EXCEPT ![t] = None]
  /\ mainConn' = IF t = MainT /\ ret[t] = "idle" THEN NoConn ELSE mainConn

DisconnectCheck(t) ==
  LET c == Self(t) IN
  /\ pc[t] = "d_check"
  /\ IF AlreadyDisconnecting(c)
       THEN Return(t)
       ELSE Goto(t, "d_set") /\ UNCHANGED <<ret, mainConn>>
  /\ UNCHANGED <<winVars, objVars, retryVars, regVars, evVars, ioVars, histVars, wireVars, pureVars>>

\* self.disconnecting = True
DisconnectSet(t) ==
  LET c == Self(t) IN
  /\ pc[t] = "d_set"
  /\ cDisconnecting' = [cDisconnecting EXCEPT ![c] = TRUE]
  /\ Goto(t, "d_impl")
  /\ UNCHANGED <<winVars, nConns, cWindow, cTimeout, cSocket, cStatus, sockState, ret,
                 mainConn, retryVars, regVars, evVars, ioVars, histVars, wireVars, pureVars>>

\* Mutant of SocketSet: the socket is closed without the test.
SocketAssumed(c) == TRUE

\* disconnect_impl: if self.socket:
SocketSet(c) == cSocket[c] # None

\* disconnect_impl: cs_watch.erase_watches(lambda w: w.view.window() == self.window)
\*                  if self.socket:
DisconnectImpl(t) ==
  LET c == Self(t) IN
  /\ pc[t] = "d_impl"
  /\ watches' = erase_watches(watches, c)
  /\ Goto(t, IF SocketSet(c) THEN "d_close" ELSE "d_clear")
  /\ UNCHANGED <<winVars, objVars, ret, mainConn, retryVars, evals, nextId, dispatch,
                 evVars, ioVars, histVars, wireVars, pureVars>>

\* disconnect_impl: self.socket.close()
\* self.socket is read again: when another thread has set it to None in
\* between, the call raises AttributeError.
DisconnectClose(t) ==
  LET c == Self(t) IN
  /\ pc[t] = "d_close"
  /\ IF cSocket[c] = None
       THEN /\ Goto(t, Crashed(t))
            /\ ret' = [ret EXCEPT ![t] = None]
            /\ mainConn' = IF t = MainT THEN NoConn ELSE mainConn
            /\ UNCHANGED <<sockState, closeCalls>>
       ELSE /\ sockState' = [sockState EXCEPT ![c] = "closed"]
            /\ closeCalls' = [closeCalls EXCEPT ![c] = @ + 1]
            /\ Goto(t, "d_null")
            /\ UNCHANGED <<ret, mainConn>>
  /\ UNCHANGED <<winVars, nConns, cWindow, cTimeout, cDisconnecting, cSocket, cStatus,
                 retryVars, regVars, evVars, ioVars, statusClears, errLogs,
                 failMsgs, cInstalled, wireVars, pureVars>>

\* disconnect_impl: self.socket = None
DisconnectNull(t) ==
  LET c == Self(t) IN
  /\ pc[t] = "d_null"
  /\ cSocket' = [cSocket EXCEPT ![c] = None]
  /\ Goto(t, "d_clear")
  /\ UNCHANGED <<winVars, nConns, cWindow, cTimeout, cDisconnecting, cStatus, sockState,
                 ret, mainConn, retryVars, regVars, evVars, ioVars, histVars, wireVars, pureVars>>

\* state = cs_common.get_state(); state.conn = None
\* cs_common.set_status(self.window, status_key, None)
DisconnectClear(t) ==
  LET c == Self(t) IN
  /\ pc[t] = "d_clear"
  /\ stateConn' = [stateConn EXCEPT ![get_state(None)] = NoConn]
  /\ winStatus' = set_status(winStatus, cWindow[c], NoStatus)
  /\ statusClears' = [statusClears EXCEPT ![c] = @ + 1]
  /\ Goto(t, "d_erase")
  /\ UNCHANGED <<activeWindow, lastConn, warnings, objVars, ret, mainConn, retryVars,
                 regVars, evVars, ioVars, closeCalls, errLogs, failMsgs, cInstalled,
                 wireVars, pureVars>>

\* cs_eval.erase_evals(lambda eval: eval.window == self.window)
\* cs_warn.reset_warnings(self.window)
DisconnectErase(t) ==
  LET c == Self(t) IN
  /\ pc[t] = "d_erase"
  /\ evals' = erase_evals(evals, c)
  /\ warnings' = [warnings EXCEPT ![cWindow[c]] = FALSE]
  /\ Return(t)
  /\ UNCHANGED <<activeWindow, stateConn, lastConn, winStatus, objVars, retryVars,
                 watches, nextId, dispatch, evVars, ioVars, histVars, wireVars, pureVars>>

(***************************************************************************)
(* Inbound messages: handle_msg and the callbacks of cs_eval               *)
(***************************************************************************)
BatchIds == 1..MaxBatches
FormIdx  == 0..(MaxForms - 1)

\* A decoded line: msg['tag'], msg.get('id'), msg.get('idx'), and whether
\* msg['val'] starts with "Reflection warning".
MsgsOf(ids) ==
  [tag : {"ret", "ex"}, id : ids, idx : FormIdx \cup {NoIdx}, refl : {FALSE}]
  \cup [tag : {"done", "lookup", "watch"}, id : ids, idx : {NoIdx}, refl : {FALSE}]
  \cup [tag : {"err"}, id : {1}, idx : {NoIdx}, refl : BOOLEAN]
  \cup [tag : {"unknown"}, id : {1}, idx : {NoIdx}, refl : {FALSE}]

Msgs == MsgsOf(BatchIds)

\* What a handler that does not take the message returns (None).
NotHandled == [fn |-> "none", id |-> <<>>]

\* Mutant of handle_value: the value goes to the exception callback.
HandleValueAsException(msg) ==
  IF msg.tag = "ret"
    THEN [fn |-> "on_exception", id |-> FmtId(msg.id, msg.idx)]
    ELSE NotHandled

\* handle_value: cs_eval.on_success(f'{id}.{idx}', val, time = time)
handle_value(msg) ==
  IF msg.tag = "ret"
    THEN [fn |-> "on_success", id |-> FmtId(msg.id, msg.idx)]
    ELSE NotHandled

\* handle_exception: eval_id = f'{id}.{idx}' if idx is not None else id
handle_exception(msg) ==
  IF msg.tag = "ex"
    THEN [fn |-> "on_exception",
          id |-> IF msg.idx # NoIdx THEN FmtId(msg.id, msg.idx) ELSE BareId(msg.id)]
    ELSE NotHandled

\* handle_done: cs_eval.on_done(batch_id)
handle_done(msg) ==
  IF msg.tag = "done" THEN [fn |-> "on_done", id |-> BareId(msg.id)] ELSE NotHandled

\* handle_watch: cs_watch.on_watch(id, val)
handle_watch(msg) ==
  IF msg.tag = "watch" THEN [fn |-> "on_watch", id |-> BareId(msg.id)] ELSE NotHandled

\* handle_lookup: cs_eval.on_lookup(id, val)
handle_lookup(msg) ==
  IF msg.tag = "lookup" THEN [fn |-> "on_lookup", id |-> BareId(msg.id)] ELSE NotHandled

\* Mutant of handle_err: the handler takes a message of any tag.
HandleErrAnyTag(msg) ==
  [fn |-> IF msg.refl THEN "add_warning" ELSE "nothing", id |-> <<>>]

\* handle_err: cs_warn.add_warning(self.window) for a reflection warning
handle_err(msg) ==
  IF msg.tag = "err"
    THEN [fn |-> IF msg.refl THEN "add_warning" ELSE "nothing", id |-> <<>>]
    ELSE NotHandled

\* handle_msg: the first handler of the chain that returns True
handle_msg(msg) ==
  IF handle_value(msg) # NotHandled THEN handle_value(msg)
  ELSE IF handle_exception(msg) # NotHandled THEN handle_exception(msg)
  ELSE IF handle_done(msg) # NotHandled THEN handle_done(msg)
  ELSE IF handle_watch(msg) # NotHandled THEN handle_watch(msg)
  ELSE IF handle_lookup(msg) # NotHandled THEN handle_lookup(msg)
  ELSE handle_err(msg)

\* cs_eval.on_success / on_exception / on_done / on_lookup: the Eval the
\* identifier names gets its callback, on_done every Eval of the batch. The
\* callbacks change the status of the Eval, which is left out here, and leave
\* it registered.
Resolved(es, call) ==
  IF call.fn = "on_done"
    THEN {e \in es : BareId(e.batch) = call.id}
    ELSE IF call.fn \in {"on_success", "on_exception", "on_lookup"}
      THEN {e \in es : e.id = call.id}
      ELSE {}

Callbacks(es, call) == {<<call.fn, e.id>> : e \in Resolved(es, call)}

(***************************************************************************)
(* ConnectionSocketRepl.read_loop, send                                    *)
(***************************************************************************)
\* send: self.socket.sendall(msg.encode())
\* AttributeError when self.socket is None, OSError on a closed socket or a
\* broken stream.
\* (faults: whether the stream may break or be closed by the peer)
SendOutcomes(c, faults) ==
  IF cSocket[c] = None THEN {"AttributeError"}
  ELSE IF sockState[c] = "closed" THEN {"OSError"}
  ELSE IF faults THEN {"ok", "OSError"}
  ELSE {"ok"}

\* read_loop: self.set_status(1, 'Upgrading REPL')
ReadStatus(c) ==
  /\ pc[ReaderT(c)] = "r_status"
  /\ cStatus' = [cStatus EXCEPT ![c] = PhaseUpgrading]
  /\ winStatus' = set_status(winStatus, cWindow[c], PhaseUpgrading)
  /\ Goto(ReaderT(c), "r_sendA")
  /\ UNCHANGED <<activeWindow, stateConn, lastConn, warnings, nConns, cWindow, cTimeout,
                 cDisconnecting, cSocket, sockState, ret, mainConn, retryVars, regVars,
                 evVars, ioVars, histVars, wireVars, pureVars>>

Payload(l) ==
  CASE l = "r_sendA"      -> "core.clj"
    [] l = "r_sendB"      -> "socket_repl.clj"
    [] l = "r_sendShared" -> "eval_shared"
    [] l = "r_sendStart"  -> "(repl)"

\* Mutant of AfterSend: the snippet is sent whatever the setting is.
AfterSendShared(l, shared) ==
  CASE l = "r_sendA"      -> "r_sendB"
    [] l = "r_sendB"      -> "r_sendShared"
    [] l = "r_sendShared" -> "r_sendStart"
    [] l = "r_sendStart"  -> "r_lines"

\* if shared := cs_common.setting('eval_shared'): self.send(shared)
AfterSend(l, shared) ==
  CASE l = "r_sendA"      -> "r_sendB"
    [] l = "r_sendB"      -> IF shared THEN "r_sendShared" ELSE "r_sendStart"
    [] l = "r_sendShared" -> "r_sendStart"
    [] l = "r_sendStart"  -> "r_lines"

\* except OSError: pass; self.disconnect()
ReaderToDisconnect(c) ==
  /\ Goto(ReaderT(c), "d_check")
  /\ ret' = [ret EXCEPT ![ReaderT(c)] = "r_done"]

\* read_loop: the sends of the handshake; the third one only when the
\* setting eval_shared is set.
\* (settings: the values the setting may have)
ReadSend(c, settings, faults) ==
  LET t == ReaderT(c) IN
  /\ pc[t] \in {"r_sendA", "r_sendB", "r_sendShared", "r_sendStart"}
  /\ \E shared \in settings, out \in SendOutcomes(c, faults) :
       CASE out = "ok" ->
              /\ sent' = [sent EXCEPT ![c] = Append(@, <<"handshake", Payload(pc[t])>>)]
              /\ cShared' = IF pc[t] = "r_sendB"
                              THEN [cShared EXCEPT ![c] = IF shared THEN "set" ELSE "unset"]
                              ELSE cShared
              /\ Goto(t, AfterSend(pc[t], shared))
              /\ UNCHANGED ret
         [] out = "OSError" ->
              ReaderToDisconnect(c) /\ UNCHANGED <<sent, cShared>>
         [] out = "AttributeError" ->
              Goto(t, "crashed") /\ UNCHANGED <<sent, cShared, ret>>
  /\ UNCHANGED <<winVars, objVars, mainConn, retryVars, regVars, evVars, started,
                 inbound, arrived, handled, histVars, pureVars>>

\* started = False; for line in lines(self.socket): the generator is given
\* self.socket as it is now; on None its first recv raises AttributeError.
ReadLines(c) ==
  LET t == ReaderT(c) IN
  /\ pc[t] = "r_lines"
  /\ started' = [started EXCEPT ![c] = FALSE]
  /\ Goto(t, IF cSocket[c] = None THEN "crashed" ELSE "r_recv")
  /\ UNCHANGED <<winVars, objVars, ret, mainConn, retryVars, regVars, evVars, sent,
                 histVars, wireVars, pureVars>>

\* One turn of the for loop before the sentinel: a line without it is
\* dropped; on '{"tag" "started"}' in line the loop goes on to set_status.
ReadHandshakeLine(c) ==
  LET t == ReaderT(c) IN
  /\ pc[t] = "r_recv"
  /\ sockState[c] = "open"
  /\ ~started[c]
  /\ \E sentinel \in BOOLEAN : Goto(t, IF sentinel THEN "r_ready" ELSE "r_recv")
  /\ UNCHANGED <<winVars, objVars, ret, mainConn, retryVars, regVars, evVars, ioVars,
                 histVars, wireVars, pureVars>>

\* self.set_status(4, self.get_addr()); started = True
\* The line has been received; nothing is tested between the recv and the
\* status update.
ReadReady(c) ==
  LET t == ReaderT(c) IN
  /\ pc[t] = "r_ready"
  /\ cStatus' = [cStatus EXCEPT ![c] = PhaseReady]
  /\ winStatus' = set_status(winStatus, cWindow[c], PhaseReady)
  /\ started' = [started EXCEPT ![c] = TRUE]
  /\ Goto(t, "r_recv")
  /\ UNCHANGED <<activeWindow, stateConn, lastConn, warnings, nConns, cWindow, cTimeout,
                 cDisconnecting, cSocket, sockState, ret, mainConn, retryVars, regVars,
                 evVars, sent, histVars, wireVars, pureVars>>

\* msg = cs_parser.parse_as_dict(line); self.handle_msg(msg)
Handle(c, msg) ==
  LET call == handle_msg(msg) IN
  /\ dispatch' = [msg |-> msg, cbs |-> Callbacks(evals, call)]
  /\ warnings' = IF call.fn = "add_warning"
                   THEN [warnings EXCEPT ![cWindow[c]] = TRUE]
                   ELSE warnings

\* One turn of the for loop after the sentinel, for a line that is taken as
\* soon as it arrives.
\* (msgs: the messages the peer may send)
ReadMessage(c, msgs) ==
  LET t == ReaderT(c) IN
  /\ pc[t] = "r_recv"
  /\ sockState[c] = "open"
  /\ started[c]
  /\ \E msg \in msgs : Handle(c, msg)
  /\ UNCHANGED <<activeWindow, stateConn, lastConn, winStatus, objVars, thrVars,
                 retryVars, evals, watches, nextId, evVars, ioVars, histVars, wireVars,
                 pureVars>>

\* The line holding the sentinel, as a decoded line.
StartedLine == [tag |-> "started", id |-> 1, idx |-> NoIdx, refl |-> FALSE]

\* The peer writes a line and it arrives in the buffer of the socket.
\* (lns: the lines the peer may write; limit: how many it writes at most)
PeerWrite(c, lns, limit) ==
  /\ sockState[c] = "open"
  /\ Len(arrived[c]) < limit
  /\ \E line \in lns :
       /\ inbound' = [inbound EXCEPT ![c] = Append(@, line)]
       /\ arrived' = [arrived EXCEPT ![c] = Append(@, line)]
  /\ UNCHANGED <<winVars, objVars, thrVars, retryVars, regVars, evVars, ioVars, cShared,
                 handled, histVars, pureVars>>

\* Mutant of NextLine: the generator yields the newest line of its buffer.
NewestLine(buffer) == buffer[Len(buffer)]

\* lines: (line, buffer) = buffer.split(b'\n', 1); yield line.decode()
\* The line yielded is the first one of the buffer.
NextLine(buffer) == Head(buffer)

\* One turn of the for loop before the sentinel, on a line of the buffer:
\* the line is not decoded; with the sentinel in it the loop goes on to
\* set_status, without it the line is dropped.
ReadQueuedHandshake(c) ==
  LET t == ReaderT(c) IN
  /\ pc[t] = "r_recv"
  /\ sockState[c] = "open"
  /\ ~started[c]
  /\ inbound[c] # <<>>
  /\ inbound' = [inbound EXCEPT ![c] = Tail(@)]
  /\ Goto(t, IF NextLine(inbound[c]) = StartedLine THEN "r_ready" ELSE "r_recv")
  /\ UNCHANGED <<winVars, objVars, ret, mainConn, retryVars, regVars, evVars, ioVars,
                 cShared, arrived, handled, histVars, pureVars>>

\* One turn of the for loop after the sentinel, on a line of the buffer.
ReadQueued(c) ==
  LET t == ReaderT(c) IN
  /\ pc[t] = "r_recv"
  /\ sockState[c] = "open"
  /\ started[c]
  /\ inbound[c] # <<>>
  /\ Handle(c, NextLine(inbound[c]))
  /\ inbound' = [inbound EXCEPT ![c] = Tail(@)]
  /\ handled' = [handled EXCEPT ![c] = Append(@, NextLine(inbound[c]))]
  /\ UNCHANGED <<activeWindow, stateConn, lastConn, winStatus, objVars, thrVars,
                 retryVars, evals, watches, nextId, evVars, ioVars, cShared, arrived,
                 histVars, pureVars>>

\* A line that cs_parser.parse_as_dict or a handler cannot take (no 'tag',
\* no 'val'): the exception is no OSError, the thread dies.
ReadMalformed(c) ==
  LET t == ReaderT(c) IN
  /\ pc[t] = "r_recv"
  /\ sockState[c] = "open"
  /\ started[c]
  /\ Goto(t, "crashed")
  /\ UNCHANGED <<winVars, objVars, ret, mainConn, retryVars, regVars, evVars, ioVars,
                 histVars, wireVars, pureVars>>

\* recv returns b'' (the peer closed the stream: lines() ends and so does the
\* for loop) or raises OSError (a broken stream, or the socket closed by
\* disconnect_impl): read_loop goes on to self.disconnect().
ReadEnd(c, faults) ==
  LET t == ReaderT(c) IN
  /\ pc[t] = "r_recv"
  /\ sockState[c] = "closed" \/ faults
  /\ ReaderToDisconnect(c)
  /\ UNCHANGED <<winVars, objVars, mainConn, retryVars, regVars, evVars, ioVars,
                 histVars, wireVars, pureVars>>

(***************************************************************************)
(* ConnectionSocketRepl.eval                                               *)
(***************************************************************************)
\* The eval command of the active window, given one region with n top-level
\* forms that are no comment and no discard.
\* (counts: the numbers of forms a region may hold; batches: the requests
\* a run may make)
EvalCommand(counts, batches) ==
  /\ pc[MainT] = "idle"
  /\ ready(activeWindow)
  /\ nextId <= batches
  /\ \E n \in counts : evForms' = n
  /\ evCreated' = <<>>
  /\ evIdx' = 0
  /\ evBatch' = 0
  /\ mainConn' = stateConn[activeWindow]
  /\ Goto(MainT, "e_reset")
  /\ UNCHANGED <<winVars, objVars, ret, retryVars, regVars, ioVars, histVars, wireVars, pureVars>>

\* cs_warn.reset_warnings(self.window)
EvalReset ==
  /\ pc[MainT] = "e_reset"
  /\ warnings' = [warnings EXCEPT ![cWindow[mainConn]] = FALSE]
  /\ Goto(MainT, "e_batch")
  /\ UNCHANGED <<activeWindow, stateConn, lastConn, winStatus, objVars, ret, mainConn,
                 retryVars, regVars, evVars, ioVars, histVars, wireVars, pureVars>>

\* batch_id = cs_eval.Eval.next_id()
EvalBatch ==
  /\ pc[MainT] = "e_batch"
  /\ evBatch' = nextId
  /\ nextId' = nextId + 1
  /\ Goto(MainT, "e_create")
  /\ UNCHANGED <<winVars, objVars, ret, mainConn, retryVars, evals, watches, dispatch,
                 evForms, evIdx, evCreated, ioVars, histVars, wireVars, pureVars>>

\* Mutant of EvalId: indices count from 1.
EvalIdFromOne(batch_id, idx) == FmtId(batch_id, idx + 1)

\* id = f'{batch_id}.{idx}'
EvalId(batch_id, idx) == FmtId(batch_id, idx)

\* for idx, form in enumerate(forms):
\*   eval = cs_eval.Eval(view, region, id = f'{batch_id}.{idx}', batch_id = batch_id, ...)
\* The constructor registers the Eval; its window is the window of the view.
EvalCreate ==
  /\ pc[MainT] = "e_create"
  /\ evIdx < evForms
  /\ evals' = evals \cup {[id |-> EvalId(evBatch, evIdx), batch |-> evBatch,
                           win |-> activeWindow]}
  /\ evCreated' = Append(evCreated, EvalId(evBatch, evIdx))
  /\ evIdx' = evIdx + 1
  /\ UNCHANGED <<winVars, objVars, thrVars, retryVars, watches, nextId, dispatch,
                 evForms, evBatch, ioVars, histVars, wireVars, pureVars>>

\* Mutant of LoopDone: the request is written while Evals are still to be
\* created.
LoopLeftEarly(idx, forms) == TRUE

\* for idx, form in enumerate(forms): the loop is left when every form has
\* had its turn; the statements after it run then.
LoopDone(idx, forms) == idx = forms

\* form = cs_common.Form(id = batch_id, ...); self.eval_impl(form)
\* eval_impl ends in self.send(msg); an exception of send ends the command.
EvalSend(faults) ==
  /\ pc[MainT] = "e_create"
  /\ LoopDone(evIdx, evForms)
  /\ \E out \in SendOutcomes(mainConn, faults) :
       sent' = IF out = "ok"
                 THEN [sent EXCEPT ![mainConn] = Append(@, <<"eval", BareId(evBatch)>>)]
                 ELSE sent
  /\ Goto(MainT, "idle")
  /\ mainConn' = NoConn
  /\ UNCHANGED <<winVars, objVars, ret, retryVars, regVars, evVars, started, histVars,
                 wireVars, pureVars>>

\* Connection.lookup: eval = cs_eval.Eval(view, region)
\* The Eval takes the next identifier as it is and belongs to no batch.
\* (batches: the requests a run may make)
LookupCommand(batches) ==
  /\ pc[MainT] = "idle"
  /\ ready(activeWindow)
  /\ nextId <= batches
  /\ evals' = evals \cup {[id |-> BareId(nextId), batch |-> 0,
                           win |-> activeWindow]}
  /\ nextId' = nextId + 1
  /\ evBatch' = nextId
  /\ evForms' = 0
  /\ evIdx' = 0
  /\ evCreated' = <<>>
  /\ mainConn' = stateConn[activeWindow]
  /\ Goto(MainT, "l_send")
  /\ UNCHANGED <<winVars, objVars, ret, retryVars, watches, dispatch, ioVars, histVars,
                 wireVars, pureVars>>

\* self.lookup_impl(eval.id, symbol, ns): self.send(msg)
LookupSend(faults) ==
  /\ pc[MainT] = "l_send"
  /\ \E out \in SendOutcomes(mainConn, faults) :
       sent' = IF out = "ok"
                 THEN [sent EXCEPT ![mainConn] = Append(@, <<"lookup", BareId(evBatch)>>)]
                 ELSE sent
  /\ Goto(MainT, "idle")
  /\ mainConn' = NoConn
  /\ UNCHANGED <<winVars, objVars, ret, retryVars, regVars, evVars, started, histVars,
                 wireVars, pureVars>>

\* Mutant of InterruptId: the request carries the identifier of the Eval.
InterruptEvalId(batch_id, id) == id

\* interrupt_impl: msg = f'{{"id" {batch_id}, "op" "interrupt"}}'
InterruptId(batch_id, id) == BareId(batch_id)

\* The interrupt requests a connection has written.
Interrupts(c) == SelectSeq(sent[c], LAMBDA x : x[1] = "interrupt")

\* Connection.interrupt(batch_id, id): self.interrupt_impl(batch_id, id),
\* which builds the request and calls self.send; an exception of send ends
\* the call. The Eval interrupted is one of a batch in the active window.
\* (limit: the interrupt requests a run may make)
InterruptCommand(limit, faults) ==
  LET c == stateConn[activeWindow] IN
  /\ pc[MainT] = "idle"
  /\ ready(activeWindow)
  /\ Len(Interrupts(c)) < limit
  /\ \E e \in evals, out \in SendOutcomes(c, faults) :
       /\ e.win = activeWindow
       /\ e.batch # 0
       /\ sent' = IF out = "ok"
                    THEN [sent EXCEPT ![c] = Append(@, <<"interrupt",
                                                        InterruptId(e.batch, e.id)>>)]
                    ELSE sent
  /\ UNCHANGED <<winVars, objVars, thrVars, retryVars, regVars, evVars, started,
                 histVars, wireVars, pureVars>>

\* A watch is added in the active window (cs_watch).
AddWatch ==
  /\ pc[MainT] = "idle"
  /\ ready(activeWindow)
  /\ activeWindow \notin watches
  /\ watches' = watches \cup {activeWindow}
  /\ UNCHANGED <<winVars, objVars, thrVars, retryVars, evals, nextId, dispatch, evVars,
                 ioVars, histVars, wireVars, pureVars>>

(***************************************************************************)
(* Specifications                                                          *)
(***************************************************************************)
NextLines == LinesRecv \/ LinesYield \/ LinesLoop \/ LinesFinal
InitLines == LinesStart /\ EscapeIdle /\ ConnStart
SpecLines == InitLines /\ [][NextLines]_vars

NextEscape == EvalImplEncode \/ PeerDecode
InitEscape == EscapeStart /\ LinesIdle /\ ConnStart
SpecEscape == InitEscape /\ [][NextEscape]_vars

\* No Connection has been constructed; the pure parts are not running.
Init == ConnStart /\ LinesIdle /\ EscapeIdle

\* The steps of connect, try_connect_impl, disconnect and read_loop.
ConnectionSteps(durations, settings, faults) ==
  \/ ConnectFailedMsg
  \/ \E t \in Threads :
       \/ ConnectImplStatus(t)
       \/ ConnectImplSocket(t, durations)
       \/ Install(t)
       \/ DisconnectCheck(t)
       \/ DisconnectSet(t)
       \/ DisconnectImpl(t)
       \/ DisconnectClose(t)
       \/ DisconnectNull(t)
       \/ DisconnectClear(t)
       \/ DisconnectErase(t)
  \/ \E c \in Conns :
       \/ ReadStatus(c)
       \/ ReadSend(c, settings, faults)
       \/ ReadLines(c)
       \/ ReadReady(c)
       \/ ReadEnd(c, faults)

\* The same with the lines of the handshake taken as soon as they arrive.
Lifecycle(durations, settings, faults) ==
  \/ ConnectionSteps(durations, settings, faults)
  \/ \E c \in Conns : ReadHandshakeLine(c)

\* The steps of try_connect_impl.
Retrying(overs) ==
  \E c \in Conns :
    \/ TryCheck(c, overs)
    \/ TryFailedMsg(c)

\* The steps of ConnectionSocketRepl.eval and of the receive loop once the
\* sentinel has been seen.
Evaluation(counts, batches, msgs, faults) ==
  \/ EvalCommand(counts, batches)
  \/ EvalReset
  \/ EvalBatch
  \/ EvalCreate
  \/ EvalSend(faults)
  \/ AddWatch
  \/ \E c \in Conns : ReadMessage(c, msgs)

\* One Connection, connected at once or with the shortest timeout, in one of
\* two windows.
Next ==
  \/ ConnectCommand(1, {0, 1})
  \/ DisconnectCommand
  \/ SwitchWindow
  \/ Lifecycle({0}, BOOLEAN, TRUE)
  \/ Retrying({0})

Spec == Init /\ [][Next]_vars

\* One Connection, connected at once, and the requests made over it until
\* the stream ends or breaks.
NextEval ==
  \/ ConnectCommand(1, {0})
  \/ Lifecycle({0}, {FALSE}, TRUE)
  \/ Evaluation(0..MaxForms, MaxBatches, Msgs, TRUE)
  \/ LookupCommand(MaxBatches)
  \/ LookupSend(TRUE)
  \/ \E c \in Conns : ReadMalformed(c)

SpecEval == Init /\ [][NextEval]_vars

\* One Connection connected with a timeout; a sleep may run over and a
\* connection attempt takes time.
NextRetry ==
  \/ ConnectCommand(1, Timeouts)
  \/ DisconnectCommand
  \/ Lifecycle(0..MaxAttemptTicks, {FALSE}, TRUE)
  \/ Retrying(0..MaxOversleep)

SpecRetry == Init /\ [][NextRetry]_vars

\* MaxConns Connections and every command of the window, in one window; the
\* stream ends only when the socket is closed.
NextTwo ==
  \/ ConnectCommand(MaxConns, {0, 1})
  \/ DisconnectCommand
  \/ ReconnectCommand(MaxConns)
  \/ ReconnectConnect
  \/ Lifecycle({0}, {FALSE}, FALSE)
  \/ Retrying({0})

SpecTwo == Init /\ [][NextTwo]_vars

\* Two Connections, each connected at once in a window of its own, requests
\* of one form, their values and reflection warnings; the stream ends only
\* when the socket is closed.
NextEvict ==
  \/ ConnectCommand(2, {0})
  \/ DisconnectCommand
  \/ SwitchWindow
  \/ Lifecycle({0}, {FALSE}, FALSE)
  \/ Evaluation({1}, 2, {m \in MsgsOf({1, 2}) : \/ m.tag = "ret" /\ m.idx = 0
                                                \/ m.tag = "err" /\ m.refl}, FALSE)

SpecEvict == Init /\ [][NextEvict]_vars

\* The lines the peer writes in SpecOrder: the sentinel, a value, a line
\* with a tag no handler knows.
OrderLines ==
  {StartedLine} \cup {m \in MsgsOf({1}) : \/ m.tag = "ret" /\ m.idx = 0
                                          \/ m.tag = "unknown"}

\* One Connection, its handshake and the lines of its peer, which wait in
\* the buffer of the socket until the receive loop takes them.
NextOrder ==
  \/ ConnectCommand(1, {0})
  \/ ConnectionSteps({0}, BOOLEAN, TRUE)
  \/ \E c \in Conns :
       \/ PeerWrite(c, OrderLines, MaxLines)
       \/ ReadQueuedHandshake(c)
       \/ ReadQueued(c)

SpecOrder == Init /\ [][NextOrder]_vars

\* One Connection, one request of two forms, interrupt requests, and the
\* messages that answer them.
NextInterrupt ==
  \/ ConnectCommand(1, {0})
  \/ DisconnectCommand
  \/ Lifecycle({0}, {FALSE}, TRUE)
  \/ Evaluation({2}, 1, {m \in MsgsOf({1}) : \/ m.tag = "ret" /\ m.idx = 0
                                             \/ m.tag = "ex" /\ m.idx \in {1, NoIdx}
                                             \/ m.tag = "done"}, TRUE)
  \/ InterruptCommand(MaxInterrupts, TRUE)

SpecInterrupt == Init /\ [][NextInterrupt]_vars

(***************************************************************************)
(* Properties                                                              *)
(***************************************************************************)

\* C1 (as stated): however the disconnect() calls on one Connection
\* interleave, its socket is closed at most once and the status indicator is
\* cleared at most once.
C1_ClosedAndClearedOnce ==
  \A c \in Conns : closeCalls[c] <= 1 /\ statusClears[c] <= 1

\* C2: a disconnect() call that finds the disconnecting flag already true
\* returns to its caller in that step and leaves the socket handle, the
\* active-connection reference, the status, the Eval registry, the watches
\* and the warning state as they were.
C2_NoEffectWhenDisconnecting ==
  [][\A t \in Threads :
       (pc[t] = "d_check" /\ cDisconnecting[Self(t)] /\ pc'[t] # pc[t])
         => /\ pc'[t] = ret[t]
            /\ UNCHANGED <<cSocket, sockState, cDisconnecting, cStatus, stateConn,
                           winStatus, evals, watches, warnings, closeCalls,
                           statusClears>>]_vars

\* The reader's disconnect() call has returned although the cleanup has not
\* run yet: the command's call had set the flag and closed the socket and is
\* about to clear state.conn and the status, with Evals of the window
\* registered, a watch held and a warning counted.
C2_Witness ==
  \E c \in Conns :
    /\ pc[ReaderT(c)] = "r_done"
    /\ pc[MainT] = "d_clear"
    /\ mainConn = c
    /\ cDisconnecting[c]
    /\ statusClears[c] = 0
    /\ stateConn[cWindow[c]] = c
    /\ winStatus[cWindow[c]] = PhaseReady
    /\ warnings[cWindow[c]]
    /\ watches # {}
    /\ \E e \in evals : e.win = cWindow[c]

\* C3 (as stated): with a timeout T > 0 and every attempt failing,
\* consecutive attempts are at least 250 ms apart, the loop stops within
\* T + 250 ms of its start, and the failure is reported once.
C3_StopsWithinTimeoutPlusSleep ==
  \A c \in Conns :
    /\ prevAttemptAt[c] # -1 => attemptAt[c] - prevAttemptAt[c] >= SleepTicks
    /\ stoppedAt[c] # -1 => stoppedAt[c] <= cTimeout[c] + SleepTicks
    /\ errLogs[c] <= 1
    /\ failMsgs[c] <= 1

\* C3 (amended): consecutive attempts are at least 250 ms apart; no turn of
\* the loop begins later than T after the start, and the loop stops when the
\* attempt of its last turn has failed, that is within T plus that turn's
\* sleep (250 ms and what the sleep runs over) and the time its attempt
\* takes to fail; the failure is reported once, after the disconnect cleanup.
C3_StopsAfterLastTurn ==
  \A c \in Conns :
    /\ prevAttemptAt[c] # -1 => attemptAt[c] - prevAttemptAt[c] >= SleepTicks
    /\ iterStart[c] <= cTimeout[c]
    /\ stoppedAt[c] # -1 =>
         /\ stoppedAt[c] > cTimeout[c]
         /\ stoppedAt[c] <= cTimeout[c] + SleepTicks + MaxOversleep + MaxAttemptTicks
         /\ attemptAt[c] >= iterStart[c] + SleepTicks
         /\ stoppedAt[c] >= attemptAt[c]
    /\ errLogs[c] <= 1
    /\ failMsgs[c] <= 1
    /\ (cTimeout[c] > 0 /\ failMsgs[c] = 1) =>
         /\ stoppedAt[c] # -1
         /\ errLogs[c] = 1
         /\ cDisconnecting[c]
         /\ statusClears[c] = 1
         /\ ~cInstalled[c]
    /\ (pc[RetryT(c)] = "t_done" /\ stoppedAt[c] # -1) => failMsgs[c] = 1

\* A retry loop has given up later than T + 250 ms after its start, and has
\* reported the failure.
C3_Witness ==
  \E c \in Conns :
    /\ cTimeout[c] > 0
    /\ pc[RetryT(c)] = "t_done"
    /\ stoppedAt[c] > cTimeout[c] + SleepTicks
    /\ failMsgs[c] = 1

\* C4: when the one attempt of connect() fails, the connection is never
\* installed, no close is attempted on the socket that is not there, the
\* cleanup of disconnect() runs to its end (flag set, status and
\* active-connection reference cleared) and then the failure is reported,
\* once.
C4_FailedConnectCleansUp ==
  \A c \in Conns :
    (cTimeout[c] = 0 /\ errLogs[c] >= 1) =>
      /\ ~cInstalled[c]
      /\ \A w \in Windows : stateConn[w] # c
      /\ cSocket[c] = None
      /\ closeCalls[c] = 0
      /\ errLogs[c] = 1
      /\ pc[MainT] # "crashed"
      /\ failMsgs[c] = IF pc[MainT] = "idle" THEN 1 ELSE 0
      /\ (pc[MainT] \in {"c_msg", "idle"}) =>
           /\ cDisconnecting[c]
           /\ statusClears[c] = 1
           /\ winStatus[cWindow[c]] = NoStatus
           /\ stateConn[cWindow[c]] = NoConn

\* A connect() whose attempt failed has run its cleanup and reported.
C4_Witness ==
  \E c \in Conns :
    /\ cTimeout[c] = 0
    /\ errLogs[c] = 1
    /\ failMsgs[c] = 1
    /\ cDisconnecting[c]
    /\ statusClears[c] = 1
    /\ pc[MainT] = "idle"

\* The places of b'\n' in s.
NewlinesOf(s) == {i \in 1..Len(s) : s[i] = NL}

\* The k-th smallest member of a set of numbers.
Nth(S, k) == CHOOSE i \in S : Cardinality({j \in S : j < i}) = k - 1

\* s cut at its newlines: the segments each newline ends, in order, then what
\* follows the last newline if that is not empty.
SegmentsOf(s) ==
  LET nls      == NewlinesOf(s)
      n        == Cardinality(nls)
      from(k)  == IF k = 1 THEN 1 ELSE Nth(nls, k - 1) + 1
      ended    == [k \in 1..n |-> SubSeq(s, from(k), Nth(nls, k) - 1)]
      fragment == SubSeq(s, from(n + 1), Len(s))
  IN  IF fragment = <<>> THEN ended ELSE Append(ended, fragment)

\* C5: whatever the chunks the bytes arrive in, once lines() has ended it has
\* yielded the segments of the whole input that its newlines end, in order
\* and decoded, then the unterminated fragment after the last newline if
\* there is one, and nothing else; it stops at the first segment that is no
\* UTF-8.
C5_ChunkIndependent ==
  lnPc \in {"done", "raised"} =>
    LET segs == SegmentsOf(lnInput)
        bad  == {k \in 1..Len(segs) : Decode(segs[k]) = DecodeError}
        good == IF bad = {} THEN Len(segs) ELSE Nth(bad, 1) - 1
    IN  /\ lnOut = [k \in 1..good |-> Decode(segs[k])]
        /\ (lnPc = "done") = (bad = {})

\* Three chunks, the first of which ends inside a two-byte character and the
\* last of which is a fragment with no newline: two lines come out.
C5_Witness ==
  /\ lnPc = "done"
  /\ lnInput = <<195, 169, NL, 97>>
  /\ lnSplit = << <<195>>, <<169, NL>>, <<97>> >>
  /\ lnOut = << <<233>>, <<97>> >>

\* The "eval" requests in what has been written to the socket of c.
EvalRequests(c) == {i \in 1..Len(sent[c]) : sent[c][i][1] = "eval"}

\* C6: while a region with N forms is submitted, the Evals created so far
\* are "<batch>.0", "<batch>.1", ... in that order, all of the one batch;
\* the request goes out after all N have been created, carries the bare
\* batch identifier, and is the only one of that batch.
C6_BatchIdentifiers ==
  /\ evIdx <= evForms
  /\ evCreated = [k \in 1..evIdx |-> FmtId(evBatch, k - 1)]
  /\ \A e \in evals :
       e.batch # 0 => \E k \in 0..(MaxForms - 1) : e.id = FmtId(e.batch, k)
  /\ \A e \in evals :
       (e.batch = evBatch /\ evBatch # 0) =>
         \E k \in 1..Len(evCreated) : evCreated[k] = e.id
  /\ \A c \in Conns :
       /\ \A i \in EvalRequests(c) :
            /\ \E b \in 1..(nextId - 1) : sent[c][i][2] = BareId(b)
            /\ sent[c][i][2] = BareId(evBatch) => evIdx = evForms
       /\ \A i, j \in EvalRequests(c) : sent[c][i][2] = sent[c][j][2] => i = j

\* A region of three forms has been submitted: three Evals "1.0", "1.1",
\* "1.2" are registered and one request with the identifier 1 has been sent.
C6_Witness ==
  /\ pc[MainT] = "idle"
  /\ evForms = 3
  /\ evCreated = <<FmtId(1, 0), FmtId(1, 1), FmtId(1, 2)>>
  /\ {e.id : e \in evals} = {FmtId(1, 0), FmtId(1, 1), FmtId(1, 2)}
  /\ \A e \in evals : e.batch = 1
  /\ \E c \in Conns :
       /\ Cardinality(EvalRequests(c)) = 1
       /\ \A i \in EvalRequests(c) : sent[c][i] = <<"eval", BareId(1)>>

\* C7: a message with tag ret, id i and idx k invokes the success callback
\* of the Eval "i.k" and nothing else; a message with tag ex invokes the
\* exception callback of the Eval "i.k", or of the Eval i when it has no idx,
\* and nothing else.
C7_ResponseCorrelation ==
  [][dispatch' # dispatch =>
       LET m        == dispatch'.msg
           named(x) == {e \in evals : e.id = x}
           exId     == IF m.idx # NoIdx THEN FmtId(m.id, m.idx) ELSE BareId(m.id)
       IN  /\ m.tag = "ret" =>
                dispatch'.cbs = {<<"on_success", e.id>> : e \in named(FmtId(m.id, m.idx))}
           /\ m.tag = "ex" =>
                dispatch'.cbs = {<<"on_exception", e.id>> : e \in named(exId)}
           /\ m.tag \in {"ret", "ex"} => Cardinality(dispatch'.cbs) <= 1]_vars

\* The value of the third form of batch 1 has just reached the success
\* callback of Eval "1.2".
C7_Witness ==
  /\ dispatch.msg.tag = "ret"
  /\ dispatch.msg.id = 1
  /\ dispatch.msg.idx = 2
  /\ dispatch.cbs = {<<"on_success", FmtId(1, 2)>>}
  /\ \E e \in evals : e.id = FmtId(1, 2)

\* What one character of the code becomes on the wire.
WireImage(ch) == IF ch = BS THEN <<BS, BS>> ELSE IF ch = DQ THEN <<BS, DQ>> ELSE <<ch>>

\* The images of the characters of s, one after the other.
RECURSIVE WireImages(_)
WireImages(s) == IF s = <<>> THEN <<>> ELSE WireImage(s[1]) \o WireImages(Tail(s))

\* C8: between its quotes the "code" field holds the code with every
\* backslash doubled, every double quote preceded by a backslash and every
\* other character as it is; read back as a string literal it gives the
\* code and ends where the field ends.
C8_EscapeRoundTrips ==
  /\ exPc \in {"sent", "read"} =>
       exWire = <<DQ>> \o WireImages(exCode) \o <<DQ, "}">>
  /\ exPc = "read" => exBack = [ok |-> TRUE, text |-> exCode, rest |-> <<"}">>]

\* A code text with a quote, a backslash and a letter has been sent and
\* read back.
C8_Witness ==
  /\ exPc = "read"
  /\ exCode = <<DQ, BS, "a", DQ>>
  /\ exWire = <<DQ, BS, DQ, BS, BS, "a", BS, DQ, DQ, "}">>
  /\ exBack.text = exCode

\* C9: disconnect() takes out of the registry the Evals of the connection's
\* window and no other, and out of the watches those of that window and no
\* other; no callback is invoked for what it takes out.
C9_EvictsOwnWindowOnly ==
  [][\A t \in Threads :
       /\ (pc[t] = "d_erase" /\ pc'[t] # pc[t]) =>
            /\ evals' = {e \in evals : e.win # cWindow[Self(t)]}
            /\ UNCHANGED <<dispatch, watches>>
       /\ (pc[t] = "d_impl" /\ pc'[t] # pc[t]) =>
            /\ watches' = {w \in watches : w # cWindow[Self(t)]}
            /\ UNCHANGED <<dispatch, evals>>]_vars

\* Two requests were made, one in each window; the connection of one window
\* has been disconnected: the Eval and the watch of the other window are
\* still there, those of its own window are gone.
C9_Witness ==
  /\ nextId = 3
  /\ pc[MainT] = "idle"
  /\ \E c \in Conns :
       /\ pc[ReaderT(c)] = "r_done"
       /\ statusClears[c] = 1
       /\ evals # {}
       /\ watches # {}
       /\ \A e \in evals : e.win # cWindow[c]
       /\ \A w \in watches : w # cWindow[c]

\* The connection has an open socket or a retry loop that is running.
Live(c) ==
  \/ sockState[c] = "open"
  \/ pc[RetryT(c)] \notin {"off", "t_done", "crashed"}

\* C10 (as stated): no window has two live Connections.
C10_OneLivePerWindow ==
  \A w \in Windows : Cardinality({c \in 1..nConns : cWindow[c] = w /\ Live(c)}) <= 1

\* C11: the phase shown for a window only moves Idle -> Connecting ->
\* Upgrading -> Ready with no phase skipped, and goes back to Idle from
\* Connecting (failed attempt) or by disconnect, under every interleaving of
\* the connecting thread, the receive loop and disconnect.
PhaseStep(a, b) ==
  \/ a = b
  \/ a = NoStatus /\ b = PhaseConnecting
  \/ a = PhaseConnecting /\ b = PhaseUpgrading
  \/ a = PhaseUpgrading /\ b = PhaseReady
  \/ b = NoStatus

C11_PhaseOrder ==
  [][\A w \in Windows : PhaseStep(winStatus[w], winStatus'[w])]_vars

RegisteredIds == {e.id : e \in evals}

Written(c, kind, id) == \E k \in 1..Len(sent[c]) : sent[c][k] = <<kind, BareId(id)>>

\* C12: whenever the request of an eval or a lookup is on the wire, every
\* Eval of that request is in the registry (until a disconnect evicts it), so
\* no response can find its Eval not yet registered.
C12_RegisteredBeforeWrite ==
  \A c \in Conns :
    /\ Written(c, "eval", evBatch) =>
         \/ \A i \in 0..(evForms - 1) : EvalId(evBatch, i) \in RegisteredIds
         \/ cDisconnecting[c]
    /\ Written(c, "lookup", evBatch) =>
         \/ BareId(evBatch) \in RegisteredIds
         \/ cDisconnecting[c]

\* A request with several forms is on the wire, the connection is up, and
\* the response to its last form has been dispatched to its Eval.
C12_Witness ==
  \E c \in Conns :
    /\ Written(c, "eval", evBatch)
    /\ ~cDisconnecting[c]
    /\ evForms > 1
    /\ dispatch.msg.tag = "ret"
    /\ dispatch.msg.id = evBatch
    /\ dispatch.msg.idx = evForms - 1
    /\ dispatch.cbs = {<<"on_success", EvalId(evBatch, evForms - 1)>>}

\* No thread is inside a call made on behalf of connection c.
Quiescent(c) ==
  /\ pc[MainT] = "idle"
  /\ pc[RetryT(c)] \in {"off", "t_done"}
  /\ pc[ReaderT(c)] \in {"off", "r_done", "crashed"}

\* C13: an I/O failure on the receive loop (orderly closure included) ends
\* the loop and leads to disconnect() having run: once the loop's call of
\* disconnect() has returned and no other call is under way, the socket is
\* closed, the Evals of the context are evicted, its active-connection
\* reference is cleared and its status indicator is cleared.
C13_ReaderFailureTearsDown ==
  \A c \in Conns :
    (pc[ReaderT(c)] = "r_done" /\ Quiescent(c)) =>
      /\ cSocket[c] = None
      /\ sockState[c] = "closed"
      /\ \A e \in evals : ~EvalOfWindow(e, c)
      /\ stateConn[cWindow[c]] # c
      /\ winStatus[cWindow[c]] = NoStatus

\* C14: the step of disconnect() that clears the active-connection reference
\* clears the one of the Connection's own window and leaves the reference of
\* every other window as it is, and from then on the Connection is never the
\* active connection of its window, whichever window is active and however
\* disconnect interleaves with the connect path.
C14_ClearsOwnReference ==
  [][\A c \in Conns :
       /\ statusClears'[c] > statusClears[c] =>
            /\ stateConn'[cWindow[c]] # c
            /\ \A w \in Windows \ {cWindow[c]} : stateConn'[w] = stateConn[w]
       /\ statusClears[c] > 0 => stateConn'[cWindow[c]] # c]_vars

HandshakeOf(c) ==
  LET hs == SelectSeq(sent[c], LAMBDA x : x[1] = "handshake")
  IN  [k \in 1..Len(hs) |-> hs[k][2]]

\* What the handshake writes, given what the setting was found to be.
Expected(c) ==
  CASE cShared[c] = "unread" -> <<"core.clj", "socket_repl.clj">>
    [] cShared[c] = "set"    -> <<"core.clj", "socket_repl.clj", "eval_shared", "(repl)">>
    [] cShared[c] = "unset"  -> <<"core.clj", "socket_repl.clj", "(repl)">>

IsPrefix(p, q) == Len(p) <= Len(q) /\ p = SubSeq(q, 1, Len(p))

\* The lines the receive loop has taken from the socket.
Consumed(c) == SubSeq(arrived[c], 1, Len(arrived[c]) - Len(inbound[c]))

SentinelAt(q) ==
  IF \E k \in 1..Len(q) : q[k] = StartedLine
    THEN CHOOSE k \in 1..Len(q) : q[k] = StartedLine /\ \A j \in 1..(k - 1) : q[j] # StartedLine
    ELSE 0

AfterSentinel(q) ==
  IF SentinelAt(q) = 0 THEN <<>> ELSE SubSeq(q, SentinelAt(q) + 1, Len(q))

\* C15: the handshake writes payload A, payload B, the snippet only when it
\* is configured, and the start command, in this order, before any inbound
\* line is read; nothing is dispatched before the line with the sentinel has
\* been taken, the phase is Ready only from then on, and of the lines taken
\* after it every one is dispatched.
C15_HandshakeOrder ==
  \A c \in Conns :
    /\ IsPrefix(HandshakeOf(c), Expected(c))
    /\ (Consumed(c) # <<>> \/ pc[ReaderT(c)] \in {"r_recv", "r_ready"}) =>
         /\ cShared[c] # "unread"
         /\ HandshakeOf(c) = Expected(c)
    /\ SentinelAt(Consumed(c)) = 0 =>
         /\ handled[c] = <<>>
         /\ cStatus[c] # PhaseReady
         /\ ~started[c]
    /\ started[c] => cStatus[c] = PhaseReady
    /\ SentinelAt(Consumed(c)) # 0 =>
         Len(handled[c]) = Len(Consumed(c)) - SentinelAt(Consumed(c))

\* The snippet was configured and sent, a line arrived before the sentinel
\* and was dropped, and a line after the sentinel has been dispatched.
C15_Witness ==
  \E c \in Conns :
    /\ cShared[c] = "set"
    /\ HandshakeOf(c) = Expected(c)
    /\ Len(arrived[c]) = MaxLines
    /\ arrived[c][1] # StartedLine
    /\ SentinelAt(Consumed(c)) = 2
    /\ Len(handled[c]) = MaxLines - 2
    /\ cStatus[c] = PhaseReady

\* The handlers in the order handle_msg consults them.
HandlerAt(i, msg) ==
  CASE i = 1 -> handle_value(msg)
    [] i = 2 -> handle_exception(msg)
    [] i = 3 -> handle_done(msg)
    [] i = 4 -> handle_watch(msg)
    [] i = 5 -> handle_lookup(msg)
    [] i = 6 -> handle_err(msg)

TagOrder == <<"ret", "ex", "done", "watch", "lookup", "err">>

Firing(msg) == {i \in 1..6 : HandlerAt(i, msg) # NotHandled}

\* C16: for a message handed to the dispatcher exactly one handler fires
\* when its tag is one of ret, ex, done, watch, lookup, err, namely the
\* handler of that tag, which is the first of the fixed order that takes it;
\* for any other tag no handler fires, no callback runs, and the Eval
\* registry, the status indicator and the connection are left as they were,
\* the receive loop going on.
C16_OneHandlerOrNone ==
  [][dispatch' # dispatch =>
       LET m == dispatch'.msg IN
       IF \E i \in 1..6 : m.tag = TagOrder[i]
         THEN /\ Cardinality(Firing(m)) = 1
              /\ \A i \in Firing(m) :
                   /\ m.tag = TagOrder[i]
                   /\ handle_msg(m) = HandlerAt(i, m)
         ELSE /\ Firing(m) = {}
              /\ handle_msg(m) = NotHandled
              /\ dispatch'.cbs = {}
              /\ UNCHANGED <<evals, watches, warnings, winStatus, stateConn, objVars,
                             pc, sent, started>>]_vars

\* A message with an unknown tag has been dispatched while Evals are
\* registered, and the receive loop is waiting for the next line.
C16_Witness ==
  \E c \in Conns :
    /\ dispatch.msg.tag = "unknown"
    /\ evals # {}
    /\ pc[ReaderT(c)] = "r_recv"
    /\ started[c]
    /\ ConnReady(c)

\* C17: in a retry loop with timeout T > 0 the first attempt that succeeds
\* is the last attempt: the loop installs the connection as the active
\* connection of its window and ends, without giving up, without reporting
\* a failure and without calling disconnect; and a loop that has ended has
\* either installed the connection and reported nothing, or given up,
\* reported the failure once and run the cleanup, never both.
C17_SuccessEndsLoop ==
  [][\A c \in Conns :
       cTimeout[c] > 0 =>
         /\ pc[RetryT(c)] \in {"install", "t_done"} =>
              /\ pc'[RetryT(c)] \in {"install", "t_done"}
              /\ attemptAt'[c] = attemptAt[c]
         /\ (pc[RetryT(c)] = "install" /\ pc'[RetryT(c)] = "t_done") =>
              /\ stateConn'[cWindow[c]] = c
              /\ cInstalled'[c]
         /\ pc'[RetryT(c)] = "t_done" =>
              \/ /\ cInstalled'[c]
                 /\ stoppedAt'[c] = -1
                 /\ errLogs'[c] = 0
                 /\ failMsgs'[c] = 0
              \/ /\ ~cInstalled'[c]
                 /\ stoppedAt'[c] >= 0
                 /\ errLogs'[c] = 1
                 /\ failMsgs'[c] = 1
                 /\ cDisconnecting'[c]
                 /\ statusClears'[c] = 1
                 /\ stateConn'[cWindow[c]] # c]_vars

\* A retry loop has ended with the connection installed, by an attempt that
\* was not its first.
C17_Witness ==
  \E c \in Conns :
    /\ cTimeout[c] > 0
    /\ pc[RetryT(c)] = "t_done"
    /\ prevAttemptAt[c] >= 0
    /\ cInstalled[c]
    /\ stateConn[cWindow[c]] = c
    /\ failMsgs[c] = 0

\* C18: the lines handed to the dispatcher are, in this order and each of
\* them once, the lines the receive loop has taken after the sentinel, which
\* are the lines that arrived, in arrival order; the last of them is the
\* one the handlers ran on last.
C18_ArrivalOrder ==
  \A c \in Conns :
    /\ handled[c] = AfterSentinel(Consumed(c))
    /\ handled[c] # <<>> => dispatch.msg = handled[c][Len(handled[c])]

\* Two different lines arrived after the sentinel and both have been
\* dispatched, the one that arrived first before the other.
C18_Witness ==
  \E c \in Conns :
    /\ Len(handled[c]) = 2
    /\ handled[c][1] # handled[c][2]
    /\ arrived[c] = <<StartedLine>> \o handled[c]
    /\ inbound[c] = <<>>
    /\ pc[ReaderT(c)] = "r_recv"

\* C19: a call of interrupt writes one request, which carries the batch
\* identifier of a registered Eval, and nothing else: the Eval registry, the
\* callbacks run so far, the phase and socket of the Connection, the status
\* indicator and the active-connection references are as before the call;
\* an Eval gets a callback only when a message for it is dispatched.
C19_InterruptOnlyWrites ==
  [][\A c \in Conns :
       Len(Interrupts(c))' > Len(Interrupts(c)) =>
         /\ \E e \in evals :
              /\ e.batch # 0
              /\ sent'[c] = Append(sent[c], <<"interrupt", BareId(e.batch)>>)
         /\ UNCHANGED <<evals, watches, nextId, dispatch, winVars, objVars, thrVars,
                        started>>]_vars

\* An interrupt request for a batch is the last thing written, both Evals
\* of the batch are registered, and the exception for the batch is the
\* message dispatched last, to the Eval it names.
C19_Witness ==
  \E c \in Conns :
    /\ Len(Interrupts(c)) = 1
    /\ Interrupts(c)[1] = <<"interrupt", BareId(evBatch)>>
    /\ sent[c][Len(sent[c])][1] = "interrupt"
    /\ Cardinality({e \in evals : e.batch = evBatch}) = 2
    /\ dispatch.msg.tag = "ex"
    /\ dispatch.msg.id = evBatch
    /\ dispatch.msg.idx = 1
    /\ dispatch.cbs = {<<"on_exception", EvalId(evBatch, 1)>>}

\* C20: from the moment disconnect() of a Connection has set its flag, no
\* step sets the status indicator of its window to a phase (it is only
\* cleared), no step dispatches a message, and once the teardown has cleared
\* the indicator the Connection does not report itself ready.
C20_QuietAfterTeardown ==
  [][\A c \in Conns :
       cDisconnecting[c] =>
         /\ winStatus'[cWindow[c]] \in {winStatus[cWindow[c]], NoStatus}
         /\ dispatch' = dispatch
         /\ statusClears[c] > 0 => ~ConnReady(c)]_vars

====
